---- MODULE Spec2Model ----
(***************************************************************************)
(* Model of ArcadiaViewProvider (src/unnamed/part_000): discovery and      *)
(* claiming of transcript files by per-terminal scans, the tailing reader  *)
(* (readNewLines), the transcript interpreter (processTranscriptLine) and  *)
(* its timers.  The event loop is single threaded, so every handler is one *)
(* atomic action; the file system, the clock, the configuration and the    *)
(* terminals are the environment.                                          *)
(*                                                                         *)
(* Files hold sequences of bytes.  A byte is a string: "\n", " ", the two  *)
(* bytes of one two-byte UTF-8 character, a plain letter, or a token that  *)
(* stands for the text of one complete JSON value (a token counts as one   *)
(* byte of file size).                                                     *)
(*                                                                         *)
(* Init is the state after resolveWebviewView with no terminal open.  A    *)
(* workspace folder is open, so getProjectDirPath gives every terminal the *)
(* same directory; nextTerminalIndex only names terminals and is left out. *)
(* Timeouts carry no clock: a pending timeout may run at any later step,   *)
(* except that the 300ms timeouts run in creation order and before any     *)
(* 2000ms timeout created after them.                                      *)
(***************************************************************************)
EXTENDS Integers, Sequences, FiniteSets, TLC

VARIABLES
    nextAgentId,        \* this.nextAgentId
    agents,             \* this.agents: id -> AgentState, for the live ids
    claimedFiles,       \* this.claimedFiles
    fileWatchers,       \* this.fileWatchers (ids that have a watcher)
    pollingTimers,      \* this.pollingTimers (ids that have a poll interval)
    waitingTimers,      \* this.waitingTimers: id -> timer handle, 0 = no entry
    terminalProjectDirs,\* this.terminalProjectDirs (terminals with an entry)
    terminalScanTimers, \* this.terminalScanTimers (terminals with an interval)
    timerQueue,         \* runtime: pending debounce timeouts [h, agentId]
    doneTimers,         \* runtime: pending 300ms tool-done timeouts, FIFO;
                        \* armed = debounce timeouts created before it
    pollQueue,          \* runtime: poll intervals not yet cleared
    nextTimer,          \* runtime: number of debounce timeouts created
    terminals,          \* environment: terminal -> "unborn" | "open" | "closed"
    sessionIds,         \* environment: terminal -> session id passed to its scan
    files,              \* environment: name -> bytes of the file
    existing,           \* environment: names of the files that exist
    mtimes,             \* environment: name -> modification time (ms)
    now,                \* environment: Date.now() (ms)
    maxAge,             \* environment: arcadia.sessionMaxAgeSecs
    trace               \* postMessage calls, with marks for the inputs handled

progVars == <<nextAgentId, agents, claimedFiles, fileWatchers, pollingTimers,
              waitingTimers, terminalProjectDirs, terminalScanTimers,
              timerQueue, doneTimers, pollQueue, nextTimer, trace>>
envVars == <<terminals, sessionIds, files, existing, mtimes, now, maxAge>>
vars == <<progVars, envVars>>

----------------------------------------------------------------------------
\* Bounds of the model.

NumTerminals == 2
MaxAgents == 4
MaxNow == 1000
MaxInterpLines == 4
MaxTailLen == 6
MaxAppendLen == 5
MaxPollLen == 6
MaxLifeLen == 2
MaxMalformedLines == 3
MaxInertLines == 3
MaxResyncLines == 3
MaxResyncs == 1

Terminals == 1..NumTerminals
AgentIds == 1..MaxAgents
NoSession == "none"

\* File names in the project directory.  "u1" and "u2" are the jsonl files
\* named after the session ids u1 and u2, "c1" is another jsonl file (such as
\* one written after /clear), "notes" is a file without the .jsonl suffix.
SessionNames == {"u1", "u2"}
JsonlNames == SessionNames \cup {"c1"}
FileNames == JsonlNames \cup {"notes"}

----------------------------------------------------------------------------
\* Bytes, characters and UTF-8 decoding (Buffer.toString('utf-8')).

NL == "\n"
SP == " "
LEAD == "0xC3"      \* first byte of a two-byte UTF-8 character
CONT == "0xA9"      \* its continuation byte
CH == "U+00E9"      \* the character the two bytes encode
REPL == "U+FFFD"    \* replacement character for an invalid sequence

RECURSIVE Utf8Decode(_)
Utf8Decode(b) ==
    IF b = <<>> THEN <<>>
    ELSE IF b[1] = LEAD
         THEN IF Len(b) >= 2 /\ b[2] = CONT
              THEN <<CH>> \o Utf8Decode(SubSeq(b, 3, Len(b)))
              ELSE <<REPL>> \o Utf8Decode(Tail(b))
    ELSE IF b[1] = CONT THEN <<REPL>> \o Utf8Decode(Tail(b))
    ELSE <<b[1]>> \o Utf8Decode(Tail(b))

\* String.prototype.split('\n'): the pieces between the newlines; always at
\* least one piece.
RECURSIVE SplitNL(_)
SplitNL(text) ==
    IF \A i \in 1..Len(text) : text[i] # NL THEN <<text>>
    ELSE LET k == CHOOSE i \in 1..Len(text) :
                     text[i] = NL /\ \A j \in 1..(i - 1) : text[j] # NL
         IN  <<SubSeq(text, 1, k - 1)>> \o SplitNL(SubSeq(text, k + 1, Len(text)))

\* String.prototype.trim() is the empty string.
IsBlank(s) == \A i \in 1..Len(s) : s[i] = SP

RECURSIVE DropSpaces(_)
DropSpaces(s) ==
    IF s = <<>> THEN <<>>
    ELSE IF s[1] = SP THEN DropSpaces(Tail(s))
    ELSE <<s[1]>> \o DropSpaces(Tail(s))

----------------------------------------------------------------------------
\* JSON.parse.  A token is the text of one JSON value; JsonValue gives the
\* value it parses to, reduced to the fields processTranscriptLine reads.

Block(type, id, name, toolUseId) ==
    [isNull |-> FALSE, type |-> type, id |-> id, name |-> name,
     tool_use_id |-> toolUseId]
NullBlock ==
    [isNull |-> TRUE, type |-> "", id |-> "", name |-> "", tool_use_id |-> ""]
ToolUse(id, name) == Block("tool_use", id, name, "")
ToolResult(id) == Block("tool_result", "", "", id)
TextBlock == Block("text", "", "", "")
ThinkingBlock == Block("thinking", "", "", "")

\* kind: "array" | "string" | "none" is what message.content is.
Record(type, subtype, kind, blocks, str) ==
    [isNull |-> FALSE, type |-> type, subtype |-> subtype, kind |-> kind,
     blocks |-> blocks, str |-> str]
Assistant(blocks) == Record("assistant", "", "array", blocks, <<>>)
UserList(blocks) == Record("user", "", "array", blocks, <<>>)
UserString(str) == Record("user", "", "string", <<>>, str)

JsonValue(tok) ==
    CASE tok = "A_tool_t1" -> Assistant(<<ToolUse("t1", "Read")>>)
      [] tok = "A_tool_t2" -> Assistant(<<ToolUse("t2", "Bash")>>)
      [] tok = "A_text" -> Assistant(<<TextBlock>>)
      [] tok = "A_text_tool_t1" -> Assistant(<<TextBlock, ToolUse("t1", "Grep")>>)
      [] tok = "A_tool_noid" -> Assistant(<<ToolUse("", "Read")>>)
      [] tok = "A_thinking" -> Assistant(<<ThinkingBlock>>)
      [] tok = "A_tool_t1_null" -> Assistant(<<ToolUse("t1", "Task"), NullBlock>>)
      [] tok = "A_null" -> Assistant(<<NullBlock>>)
      [] tok = "A_nocontent" -> Record("assistant", "", "none", <<>>, <<>>)
      [] tok = "U_result_t1" -> UserList(<<ToolResult("t1")>>)
      [] tok = "U_result_t2" -> UserList(<<ToolResult("t2")>>)
      [] tok = "U_result_noid" -> UserList(<<ToolResult("")>>)
      [] tok = "U_text" -> UserList(<<TextBlock>>)
      [] tok = "U_null" -> UserList(<<NullBlock>>)
      [] tok = "U_str" -> UserString(<<"h", "i">>)
      [] tok = "U_blank" -> UserString(<<SP, SP>>)
      [] tok = "U_empty" -> UserString(<<>>)
      [] tok = "S_turn" -> Record("system", "turn_duration", "none", <<>>, <<>>)
      [] tok = "S_other" -> Record("system", "compact_boundary", "none", <<>>, <<>>)
      [] tok = "P_progress" -> Record("progress", "", "none", <<>>, <<>>)
      [] tok = "J_number" -> Record("", "", "none", <<>>, <<>>)
      [] tok = "J_null" -> [Record("", "", "none", <<>>, <<>>) EXCEPT !.isNull = TRUE]

JsonTokens ==
    {"A_tool_t1", "A_tool_t2", "A_text", "A_text_tool_t1", "A_tool_noid",
     "A_thinking", "A_tool_t1_null", "A_null", "A_nocontent", "U_result_t1",
     "U_result_t2", "U_result_noid", "U_text", "U_null", "U_str", "U_blank",
     "U_empty", "S_turn", "S_other", "P_progress", "J_number", "J_null"}

\* JSON.parse(line): surrounding white space is allowed; anything but exactly
\* one JSON value is a SyntaxError.
JsonParses(line) ==
    LET s == DropSpaces(line) IN Len(s) = 1 /\ s[1] \in JsonTokens
JsonParse(line) == JsonValue(DropSpaces(line)[1])

----------------------------------------------------------------------------
\* The program state as one record, so that the methods can be written as
\* operators from state to state.

World ==
    [nextAgentId |-> nextAgentId, agents |-> agents,
     claimedFiles |-> claimedFiles, fileWatchers |-> fileWatchers,
     pollingTimers |-> pollingTimers, waitingTimers |-> waitingTimers,
     terminalProjectDirs |-> terminalProjectDirs,
     terminalScanTimers |-> terminalScanTimers, timerQueue |-> timerQueue,
     doneTimers |-> doneTimers, pollQueue |-> pollQueue,
     nextTimer |-> nextTimer, trace |-> trace]

Commit(w) ==
    /\ nextAgentId' = w.nextAgentId
    /\ agents' = w.agents
    /\ claimedFiles' = w.claimedFiles
    /\ fileWatchers' = w.fileWatchers
    /\ pollingTimers' = w.pollingTimers
    /\ waitingTimers' = w.waitingTimers
    /\ terminalProjectDirs' = w.terminalProjectDirs
    /\ terminalScanTimers' = w.terminalScanTimers
    /\ timerQueue' = w.timerQueue
    /\ doneTimers' = w.doneTimers
    /\ pollQueue' = w.pollQueue
    /\ nextTimer' = w.nextTimer
    /\ trace' = w.trace

\* webview.postMessage(msg): one entry of the trace.
Msg(type, id, toolId, status) ==
    [type |-> type, id |-> id, toolId |-> toolId, status |-> status,
     line |-> <<>>, h |-> 0]
PostMessage(w, msg) == [w EXCEPT !.trace = Append(@, msg)]

\* Marks in the trace for the inputs handled: a line handed to
\* processTranscriptLine (h = the debounce timeout pending at that moment),
\* a debounce timeout that ran (h = its handle), a tool-done timeout that ran.
LineMark(w, id, line) ==
    [type |-> "line", id |-> id, toolId |-> "", status |-> "",
     line |-> line, h |-> w.waitingTimers[id]]
TimeoutMark(type, id, toolId, h) ==
    [type |-> type, id |-> id, toolId |-> toolId, status |-> "",
     line |-> <<>>, h |-> h]

FormatToolStatus(toolName) ==
    CASE toolName = "Read" -> "Reading <basename>"
      [] toolName = "Edit" -> "Editing <basename>"
      [] toolName = "Write" -> "Writing <basename>"
      [] toolName = "Bash" -> "Running: <command>"
      [] toolName = "Glob" -> "Searching files"
      [] toolName = "Grep" -> "Searching code"
      [] toolName = "WebFetch" -> "Fetching web content"
      [] toolName = "WebSearch" -> "Searching the web"
      [] toolName = "Task" -> "Running subtask"
      [] toolName = "AskUserQuestion" -> "Waiting for your answer"
      [] toolName = "EnterPlanMode" -> "Planning"
      [] toolName = "NotebookEdit" -> "Editing notebook"
      [] OTHER -> "Using <toolName>"

CancelWaitingTimer(w, agentId) ==
    LET timer == w.waitingTimers[agentId] IN
    IF timer # 0
    THEN [w EXCEPT !.timerQueue = {t \in @ : t.h # timer},
                   !.waitingTimers[agentId] = 0]
    ELSE w

\* startWaitingTimer without its cancelWaitingTimer call.
StartWaitingTimer_NoCancel(w, agentId) ==
    LET timer == w.nextTimer + 1
    IN  [w EXCEPT !.nextTimer = timer,
                  !.timerQueue = @ \cup {[h |-> timer, agentId |-> agentId]},
                  !.waitingTimers[agentId] = timer]

StartWaitingTimer(w, agentId) ==
    LET w1 == CancelWaitingTimer(w, agentId)
        timer == w1.nextTimer + 1
    IN  [w1 EXCEPT !.nextTimer = timer,
                   !.timerQueue = @ \cup {[h |-> timer, agentId |-> agentId]},
                   !.waitingTimers[agentId] = timer]

\* clearAgentActivity that forgets agent.isWaiting = false.
ClearAgentActivity_KeepWaiting(w, agentId) ==
    IF agentId \notin DOMAIN w.agents THEN w
    ELSE LET w1 == [w EXCEPT !.agents[agentId].activeToolIds = {},
                             !.agents[agentId].activeToolStatuses = <<>>]
             w2 == PostMessage(w1, Msg("agentToolsClear", agentId, "", ""))
         IN  PostMessage(w2, Msg("agentStatus", agentId, "", "active"))

ClearAgentActivity(w, agentId) ==
    IF agentId \notin DOMAIN w.agents THEN w
    ELSE LET w1 == [w EXCEPT !.agents[agentId].activeToolIds = {},
                             !.agents[agentId].activeToolStatuses = <<>>,
                             !.agents[agentId].isWaiting = FALSE]
             w2 == PostMessage(w1, Msg("agentToolsClear", agentId, "", ""))
         IN  PostMessage(w2, Msg("agentStatus", agentId, "", "active"))

\* Map.set on the insertion-ordered activeToolStatuses.
MapSet(m, key, value) ==
    IF \E i \in 1..Len(m) : m[i].toolId = key
    THEN [i \in 1..Len(m) |->
            IF m[i].toolId = key THEN [toolId |-> key, status |-> value] ELSE m[i]]
    ELSE Append(m, [toolId |-> key, status |-> value])

MapDelete(m, key) == SelectSeq(m, LAMBDA e : e.toolId # key)

\* blocks.some(b => b.type === ty): "throw" when a null entry is reached
\* before a matching one (TypeError on null.type).
RECURSIVE SomeType(_, _)
SomeType(blocks, ty) ==
    IF blocks = <<>> THEN "false"
    ELSE IF blocks[1].isNull THEN "throw"
    ELSE IF blocks[1].type = ty THEN "true"
    ELSE SomeType(Tail(blocks), ty)

\* for (const block of blocks) of the tool_use branch; a null entry throws
\* and the catch ends the handling of the line.
RECURSIVE ToolUseLoop(_, _, _)
ToolUseLoop(w, agentId, blocks) ==
    IF blocks = <<>> THEN w
    ELSE IF blocks[1].isNull THEN w
    ELSE IF blocks[1].type = "tool_use" /\ blocks[1].id # ""
    THEN LET block == blocks[1]
             status == FormatToolStatus(block.name)
             w1 == [w EXCEPT
                      !.agents[agentId].activeToolIds = @ \cup {block.id},
                      !.agents[agentId].activeToolStatuses =
                          MapSet(@, block.id, status)]
             w2 == PostMessage(w1, Msg("agentToolStart", agentId, block.id, status))
         IN  ToolUseLoop(w2, agentId, Tail(blocks))
    ELSE ToolUseLoop(w, agentId, Tail(blocks))

\* for (const block of blocks) of the tool_result branch.
RECURSIVE ToolResultLoop(_, _, _)
ToolResultLoop(w, agentId, blocks) ==
    IF blocks = <<>> THEN w
    ELSE IF blocks[1].isNull THEN w
    ELSE IF blocks[1].type = "tool_result" /\ blocks[1].tool_use_id # ""
    THEN LET toolId == blocks[1].tool_use_id
             w1 == [w EXCEPT
                      !.agents[agentId].activeToolIds = @ \ {toolId},
                      !.agents[agentId].activeToolStatuses = MapDelete(@, toolId),
                      !.doneTimers =
                          Append(@, [agentId |-> agentId, toolId |-> toolId,
                                     armed |-> w.nextTimer])]
         IN  ToolResultLoop(w1, agentId, Tail(blocks))
    ELSE ToolResultLoop(w, agentId, Tail(blocks))

\* The assistant branch whose tool_use case leaves the debounce timeout alone.
AssistantBranch_NoCancel(w, agentId, blocks) ==
    LET hasToolUse == SomeType(blocks, "tool_use") IN
    IF hasToolUse = "throw" THEN w
    ELSE IF hasToolUse = "true"
    THEN LET w2 == [w EXCEPT !.agents[agentId].isWaiting = FALSE]
             w3 == PostMessage(w2, Msg("agentStatus", agentId, "", "active"))
         IN  ToolUseLoop(w3, agentId, blocks)
    ELSE IF SomeType(blocks, "text") = "true"
    THEN StartWaitingTimer(w, agentId)
    ELSE w

\* The assistant branch that arms the debounce timeout for every record
\* without a tool_use block, with or without text.
AssistantBranch_AlwaysArm(w, agentId, blocks) ==
    LET hasToolUse == SomeType(blocks, "tool_use") IN
    IF hasToolUse = "throw" THEN w
    ELSE IF hasToolUse = "true"
    THEN LET w1 == CancelWaitingTimer(w, agentId)
             w2 == [w1 EXCEPT !.agents[agentId].isWaiting = FALSE]
             w3 == PostMessage(w2, Msg("agentStatus", agentId, "", "active"))
         IN  ToolUseLoop(w3, agentId, blocks)
    ELSE IF SomeType(blocks, "text") = "throw" THEN w
    ELSE StartWaitingTimer(w, agentId)

AssistantBranch(w, agentId, blocks) ==
    LET hasToolUse == SomeType(blocks, "tool_use") IN
    IF hasToolUse = "throw" THEN w
    ELSE IF hasToolUse = "true"
    THEN LET w1 == CancelWaitingTimer(w, agentId)
             w2 == [w1 EXCEPT !.agents[agentId].isWaiting = FALSE]
             w3 == PostMessage(w2, Msg("agentStatus", agentId, "", "active"))
         IN  ToolUseLoop(w3, agentId, blocks)
    ELSE IF SomeType(blocks, "text") = "true"
    THEN StartWaitingTimer(w, agentId)
    ELSE w

UserBranch(w, agentId, record) ==
    IF record.kind = "array"
    THEN LET hasToolResult == SomeType(record.blocks, "tool_result") IN
         IF hasToolResult = "throw" THEN w
         ELSE IF hasToolResult = "true"
         THEN ToolResultLoop(w, agentId, record.blocks)
         ELSE ClearAgentActivity(CancelWaitingTimer(w, agentId), agentId)
    ELSE IF record.kind = "string" /\ ~IsBlank(record.str)
    THEN ClearAgentActivity(CancelWaitingTimer(w, agentId), agentId)
    ELSE w

\* The turn_duration branch without its cancelWaitingTimer call.
TurnDurationBranch_NoCancel(w, agentId) ==
    LET w2 == [w EXCEPT !.agents[agentId].isWaiting = TRUE]
    IN  PostMessage(w2, Msg("agentStatus", agentId, "", "waiting"))

TurnDurationBranch(w, agentId) ==
    LET w1 == CancelWaitingTimer(w, agentId)
        w2 == [w1 EXCEPT !.agents[agentId].isWaiting = TRUE]
    IN  PostMessage(w2, Msg("agentStatus", agentId, "", "waiting"))

ProcessTranscriptLine(w, agentId, line) ==
    IF agentId \notin DOMAIN w.agents THEN w
    ELSE IF ~JsonParses(line) THEN w
    ELSE LET record == JsonParse(line) IN
         IF record.isNull THEN w
         ELSE IF record.type = "assistant" /\ record.kind = "array"
         THEN AssistantBranch(w, agentId, record.blocks)
         ELSE IF record.type = "user"
         THEN UserBranch(w, agentId, record)
         ELSE IF record.type = "system" /\ record.subtype = "turn_duration"
         THEN TurnDurationBranch(w, agentId)
         ELSE w

\* for (const line of lines) of readNewLines.
RECURSIVE LineLoop(_, _, _)
LineLoop(w, agentId, lines) ==
    IF lines = <<>> THEN w
    ELSE IF IsBlank(lines[1]) THEN LineLoop(w, agentId, Tail(lines))
    ELSE LET w1 == [w EXCEPT !.trace = Append(@, LineMark(w, agentId, lines[1]))]
         IN  LineLoop(ProcessTranscriptLine(w1, agentId, lines[1]),
                      agentId, Tail(lines))

\* readNewLines that follows a shrunken file back to its new size.
ReadNewLines_Rewind(w, agentId, fs, io) ==
    IF agentId \notin DOMAIN w.agents THEN w
    ELSE LET agent == w.agents[agentId] IN
         IF io = "stat" \/ agent.jsonlFile \notin DOMAIN fs THEN w
         ELSE LET size == Len(fs[agent.jsonlFile]) IN
              IF size <= agent.fileOffset
              THEN [w EXCEPT !.agents[agentId].fileOffset = size]
              ELSE IF io = "read" THEN w
              ELSE LET buf == SubSeq(fs[agent.jsonlFile], agent.fileOffset + 1, size)
                       text == agent.lineBuffer \o Utf8Decode(buf)
                       lines == SplitNL(text)
                       w1 == [w EXCEPT
                                !.agents[agentId].fileOffset = size,
                                !.agents[agentId].lineBuffer = lines[Len(lines)]]
                   IN  LineLoop(w1, agentId, SubSeq(lines, 1, Len(lines) - 1))

\* readNewLines that forgets agent.fileOffset = stat.size.
ReadNewLines_NoAdvance(w, agentId, fs, io) ==
    IF agentId \notin DOMAIN w.agents THEN w
    ELSE LET agent == w.agents[agentId] IN
         IF io = "stat" \/ agent.jsonlFile \notin DOMAIN fs THEN w
         ELSE LET size == Len(fs[agent.jsonlFile]) IN
              IF size <= agent.fileOffset THEN w
              ELSE IF io = "read" THEN w
              ELSE LET buf == SubSeq(fs[agent.jsonlFile], agent.fileOffset + 1, size)
                       text == agent.lineBuffer \o Utf8Decode(buf)
                       lines == SplitNL(text)
                       w1 == [w EXCEPT
                                !.agents[agentId].lineBuffer = lines[Len(lines)]]
                   IN  LineLoop(w1, agentId, SubSeq(lines, 1, Len(lines) - 1))

\* readNewLines that sets agent.fileOffset = stat.size before the read, and
\* keeps it when the read throws.
ReadNewLines_AdvanceOnFail(w, agentId, fs, io) ==
    IF agentId \notin DOMAIN w.agents THEN w
    ELSE LET agent == w.agents[agentId] IN
         IF io = "stat" \/ agent.jsonlFile \notin DOMAIN fs THEN w
         ELSE LET size == Len(fs[agent.jsonlFile]) IN
              IF size <= agent.fileOffset THEN w
              ELSE IF io = "read"
              THEN [w EXCEPT !.agents[agentId].fileOffset = size]
              ELSE LET buf == SubSeq(fs[agent.jsonlFile], agent.fileOffset + 1, size)
                       text == agent.lineBuffer \o Utf8Decode(buf)
                       lines == SplitNL(text)
                       w1 == [w EXCEPT
                                !.agents[agentId].fileOffset = size,
                                !.agents[agentId].lineBuffer = lines[Len(lines)]]
                   IN  LineLoop(w1, agentId, SubSeq(lines, 1, Len(lines) - 1))

\* readNewLines(agentId).  fs holds the bytes of the files that exist; io is
\* "ok", or "stat" / "read" when statSync or openSync/readSync throws.
ReadNewLines(w, agentId, fs, io) ==
    IF agentId \notin DOMAIN w.agents THEN w
    ELSE LET agent == w.agents[agentId] IN
         IF io = "stat" \/ agent.jsonlFile \notin DOMAIN fs THEN w
         ELSE LET size == Len(fs[agent.jsonlFile]) IN
              IF size <= agent.fileOffset THEN w
              ELSE IF io = "read" THEN w
              ELSE LET buf == SubSeq(fs[agent.jsonlFile], agent.fileOffset + 1, size)
                       text == agent.lineBuffer \o Utf8Decode(buf)
                       lines == SplitNL(text)
                       w1 == [w EXCEPT
                                !.agents[agentId].fileOffset = size,
                                !.agents[agentId].lineBuffer = lines[Len(lines)]]
                   IN  LineLoop(w1, agentId, SubSeq(lines, 1, Len(lines) - 1))

----------------------------------------------------------------------------
\* Agents, claims and scans.

\* startFileWatching without the backup poll.
StartFileWatching_NoPoll(w, agentId, watchOk) ==
    [w EXCEPT !.fileWatchers = IF watchOk THEN @ \cup {agentId} ELSE @]

\* startFileWatching(agentId, filePath); watchOk is FALSE when fs.watch throws.
StartFileWatching(w, agentId, watchOk) ==
    [w EXCEPT !.fileWatchers = IF watchOk THEN @ \cup {agentId} ELSE @,
              !.pollQueue = @ \cup {agentId},
              !.pollingTimers = @ \cup {agentId}]

NewAgent(id, terminal, filePath) ==
    [id |-> id, terminalRef |-> terminal, jsonlFile |-> filePath,
     fileOffset |-> 0, lineBuffer |-> <<>>, activeToolIds |-> {},
     activeToolStatuses |-> <<>>, isWaiting |-> FALSE]

\* createAgentFromFile that forgets this.claimedFiles.add(filePath).
CreateAgentFromFile_NoClaim(w, terminal, filePath, fs, watchOk, io) ==
    LET id == w.nextAgentId
        w1 == [w EXCEPT !.nextAgentId = id + 1,
                        !.agents = @ @@ (id :> NewAgent(id, terminal, filePath))]
        w2 == PostMessage(w1, Msg("agentCreated", id, "", ""))
        w3 == StartFileWatching(w2, id, watchOk)
    IN  ReadNewLines(w3, id, fs, io)

\* createAgentFromFile that takes the smallest id no live agent has.
CreateAgentFromFile_ReuseId(w, terminal, filePath, fs, watchOk, io) ==
    LET id == CHOOSE i \in 1..w.nextAgentId :
                  /\ i \notin DOMAIN w.agents
                  /\ \A k \in 1..(i - 1) : k \in DOMAIN w.agents
        w1 == [w EXCEPT !.nextAgentId = IF id = @ THEN id + 1 ELSE @,
                        !.agents = @ @@ (id :> NewAgent(id, terminal, filePath)),
                        !.claimedFiles = @ \cup {filePath}]
        w2 == PostMessage(w1, Msg("agentCreated", id, "", ""))
        w3 == StartFileWatching(w2, id, watchOk)
    IN  ReadNewLines(w3, id, fs, io)

CreateAgentFromFile(w, terminal, filePath, fs, watchOk, io) ==
    LET id == w.nextAgentId
        w1 == [w EXCEPT !.nextAgentId = id + 1,
                        !.agents = @ @@ (id :> NewAgent(id, terminal, filePath)),
                        !.claimedFiles = @ \cup {filePath}]
        w2 == PostMessage(w1, Msg("agentCreated", id, "", ""))
        w3 == StartFileWatching(w2, id, watchOk)
    IN  ReadNewLines(w3, id, fs, io)

\* removeAgent that forgets this.claimedFiles.delete(agent.jsonlFile).
RemoveAgent_KeepClaim(w, agentId) ==
    IF agentId \notin DOMAIN w.agents THEN w
    ELSE LET w1 == [w EXCEPT !.fileWatchers = @ \ {agentId},
                             !.pollQueue = IF agentId \in w.pollingTimers
                                           THEN @ \ {agentId} ELSE @,
                             !.pollingTimers = @ \ {agentId}]
             w2 == CancelWaitingTimer(w1, agentId)
         IN  [w2 EXCEPT !.agents = [i \in DOMAIN @ \ {agentId} |-> @[i]]]

\* removeAgent that forgets this.agents.delete(agentId).
RemoveAgent_KeepAgent(w, agentId) ==
    IF agentId \notin DOMAIN w.agents THEN w
    ELSE LET agent == w.agents[agentId]
             w1 == [w EXCEPT !.fileWatchers = @ \ {agentId},
                             !.pollQueue = IF agentId \in w.pollingTimers
                                           THEN @ \ {agentId} ELSE @,
                             !.pollingTimers = @ \ {agentId}]
             w2 == CancelWaitingTimer(w1, agentId)
         IN  [w2 EXCEPT !.claimedFiles = @ \ {agent.jsonlFile}]

RemoveAgent(w, agentId) ==
    IF agentId \notin DOMAIN w.agents THEN w
    ELSE LET agent == w.agents[agentId]
             w1 == [w EXCEPT !.fileWatchers = @ \ {agentId},
                             !.pollQueue = IF agentId \in w.pollingTimers
                                           THEN @ \ {agentId} ELSE @,
                             !.pollingTimers = @ \ {agentId}]
             w2 == CancelWaitingTimer(w1, agentId)
         IN  [w2 EXCEPT !.claimedFiles = @ \ {agent.jsonlFile},
                        !.agents = [i \in DOMAIN @ \ {agentId} |-> @[i]]]

CleanupTerminalScan(w, terminal) ==
    [w EXCEPT !.terminalScanTimers = @ \ {terminal},
              !.terminalProjectDirs = @ \ {terminal}]

\* isFileRecent(filePath); statOk is FALSE when statSync throws.
IsFileRecent(filePath, age, mtime, time, statOk) ==
    IF age = 0 THEN TRUE
    ELSE IF ~statOk THEN FALSE
    ELSE (time - mtime) < age * 1000

\* The generic pass of scanForNewFiles over the listed files, in the order
\* readdirSync returned them.
RECURSIVE GenericScan(_, _, _, _, _, _)
GenericScan(w, terminal, listed, fs, recent, env) ==
    IF listed = <<>> THEN w
    ELSE LET file == listed[1] IN
         IF file \notin w.claimedFiles /\ file \in recent
         THEN GenericScan(
                  CreateAgentFromFile(w, terminal, file, fs,
                                      file \notin env.watchFail,
                                      IF file \in env.ioFail THEN "stat" ELSE "ok"),
                  terminal, Tail(listed), fs, recent, env)
         ELSE GenericScan(w, terminal, Tail(listed), fs, recent, env)

\* scanForNewFiles whose session-id lookup also asks isFileRecent.
ScanForNewFiles_RecentOnly(w, terminal, sessionId, listed, fs, recent, env) ==
    IF terminal \notin w.terminalProjectDirs THEN w
    ELSE LET expectedFile == sessionId
             w1 == IF /\ sessionId # NoSession
                      /\ expectedFile \in DOMAIN fs
                      /\ expectedFile \notin w.claimedFiles
                      /\ expectedFile \in recent
                   THEN CreateAgentFromFile(w, terminal, expectedFile, fs,
                            expectedFile \notin env.watchFail,
                            IF expectedFile \in env.ioFail THEN "stat" ELSE "ok")
                   ELSE w
         IN  IF env.dirFail THEN w1
             ELSE GenericScan(w1, terminal, listed, fs, recent, env)

\* scanForNewFiles(terminal, sessionId).  listed is the result of readdirSync
\* filtered to *.jsonl; env.dirFail says that readdirSync throws; recent is the
\* set of files isFileRecent accepts.
ScanForNewFiles(w, terminal, sessionId, listed, fs, recent, env) ==
    IF terminal \notin w.terminalProjectDirs THEN w
    ELSE LET expectedFile == sessionId
             w1 == IF /\ sessionId # NoSession
                      /\ expectedFile \in DOMAIN fs
                      /\ expectedFile \notin w.claimedFiles
                   THEN CreateAgentFromFile(w, terminal, expectedFile, fs,
                            expectedFile \notin env.watchFail,
                            IF expectedFile \in env.ioFail THEN "stat" ELSE "ok")
                   ELSE w
         IN  IF env.dirFail THEN w1
             ELSE GenericScan(w1, terminal, listed, fs, recent, env)

\* startTerminalFileScan(terminal, sessionId, cwd), with a workspace folder.
StartTerminalFileScan(w, terminal) ==
    [w EXCEPT !.terminalProjectDirs = @ \cup {terminal},
              !.terminalScanTimers = @ \cup {terminal}]

\* isTracked(terminal)
IsTracked(w, terminal) ==
    \/ terminal \in w.terminalScanTimers
    \/ \E id \in DOMAIN w.agents : w.agents[id].terminalRef = terminal

\* The ids of the live agents in Map iteration order (insertion order, which
\* is ascending id order because ids only grow).
RECURSIVE SortedIds(_)
SortedIds(S) ==
    IF S = {} THEN <<>>
    ELSE LET m == CHOOSE x \in S : \A y \in S : x <= y
         IN  <<m>> \o SortedIds(S \ {m})

\* The loop of the onDidCloseTerminal handler.
RECURSIVE CloseLoop(_, _, _)
CloseLoop(w, closed, ids) ==
    IF ids = <<>> THEN w
    ELSE IF ids[1] \in DOMAIN w.agents /\ w.agents[ids[1]].terminalRef = closed
    THEN CloseLoop(PostMessage(RemoveAgent(w, ids[1]),
                               Msg("agentClosed", ids[1], "", "")),
                   closed, Tail(ids))
    ELSE CloseLoop(w, closed, Tail(ids))

RECURSIVE RemoveAll(_, _)
RemoveAll(w, ids) ==
    IF ids = <<>> THEN w ELSE RemoveAll(RemoveAgent(w, ids[1]), Tail(ids))

RECURSIVE CleanupAll(_, _)
CleanupAll(w, ts) ==
    IF ts = <<>> THEN w ELSE CleanupAll(CleanupTerminalScan(w, ts[1]), Tail(ts))

----------------------------------------------------------------------------
\* The snapshot sent when the view asks for it.

\* for (const [toolId, status] of agent.activeToolStatuses) of
\* sendCurrentAgentStatuses.
RECURSIVE ResendTools(_, _, _)
ResendTools(w, agentId, statuses) ==
    IF statuses = <<>> THEN w
    ELSE ResendTools(PostMessage(w, Msg("agentToolStart", agentId,
                                        statuses[1].toolId, statuses[1].status)),
                     agentId, Tail(statuses))

\* sendCurrentAgentStatuses that re-sends "waiting" for every agent.
RECURSIVE SendCurrentAgentStatuses_Always(_, _)
SendCurrentAgentStatuses_Always(w, ids) ==
    IF ids = <<>> THEN w
    ELSE LET agentId == ids[1]
             w1 == ResendTools(w, agentId, w.agents[agentId].activeToolStatuses)
             w2 == PostMessage(w1, Msg("agentStatus", agentId, "", "waiting"))
         IN  SendCurrentAgentStatuses_Always(w2, Tail(ids))

\* sendCurrentAgentStatuses(); ids are the keys of this.agents in insertion
\* order, which is the order of the ids.
RECURSIVE SendCurrentAgentStatuses(_, _)
SendCurrentAgentStatuses(w, ids) ==
    IF ids = <<>> THEN w
    ELSE LET agentId == ids[1]
             agent == w.agents[agentId]
             w1 == ResendTools(w, agentId, agent.activeToolStatuses)
             w2 == IF agent.isWaiting
                   THEN PostMessage(w1, Msg("agentStatus", agentId, "", "waiting"))
                   ELSE w1
         IN  SendCurrentAgentStatuses(w2, Tail(ids))

\* The existingAgents message; the sorted ids are written in the line field.
ExistingAgentsMsg(ids) ==
    [Msg("existingAgents", 0, "", "") EXCEPT
        !.line = [i \in 1..Len(ids) |-> ToString(ids[i])]]

\* sendExistingAgents()
SendExistingAgents(w) ==
    LET ids == SortedIds(DOMAIN w.agents)
    IN  SendCurrentAgentStatuses(PostMessage(w, ExistingAgentsMsg(ids)), ids)

----------------------------------------------------------------------------
\* The file system as the handlers see it.

Fs == [f \in existing |-> files[f]]

Recent(statFail) ==
    {f \in existing :
        IsFileRecent(f, maxAge, mtimes[f], now, f \notin statFail)}

\* The orders in which readdirSync may list the jsonl files.
Listings ==
    LET S == existing \cap JsonlNames IN
    {l \in [1..Cardinality(S) -> S] : \A i, j \in DOMAIN l : l[i] = l[j] => i = j}

UnchangedEnv == UNCHANGED envVars

----------------------------------------------------------------------------
\* Actions of the program: one per handler.

\* launchNewTerminal(): a new terminal running the agent with a fresh
\* session id.
LaunchNewTerminal(t, sid) ==
    /\ terminals[t] = "unborn"
    /\ \A u \in Terminals : sessionIds[u] # sid
    /\ terminals' = [terminals EXCEPT ![t] = "open"]
    /\ sessionIds' = [sessionIds EXCEPT ![t] = sid]
    /\ Commit(StartTerminalFileScan(World, t))
    /\ UNCHANGED <<files, existing, mtimes, now, maxAge>>

\* onDidOpenTerminal(terminal): a terminal opened by somebody else; matches
\* says whether its name matches CLAUDE_TERMINAL_PATTERN.
OpenTerminal(t, matches) ==
    /\ terminals[t] = "unborn"
    /\ terminals' = [terminals EXCEPT ![t] = "open"]
    /\ Commit(IF matches /\ ~IsTracked(World, t)
              THEN StartTerminalFileScan(World, t) ELSE World)
    /\ UNCHANGED <<sessionIds, files, existing, mtimes, now, maxAge>>

\* onDidCloseTerminal(closed)
CloseTerminal(t) ==
    /\ terminals[t] = "open"
    /\ terminals' = [terminals EXCEPT ![t] = "closed"]
    /\ Commit(CleanupTerminalScan(
                  CloseLoop(World, t, SortedIds(DOMAIN agents)), t))
    /\ UNCHANGED <<sessionIds, files, existing, mtimes, now, maxAge>>

\* One tick of the scan interval of terminal t.
ScanTick(t, env) ==
    /\ t \in terminalScanTimers
    /\ \E listed \in Listings :
         LET w == ScanForNewFiles(World, t, sessionIds[t], listed, Fs,
                                  Recent(env.ioFail), env)
         IN  /\ w.nextAgentId <= MaxAgents + 1
             /\ Commit(w)
    /\ UnchangedEnv

\* One tick of the poll interval of agent id.
PollTick(id, io) ==
    /\ id \in pollQueue
    /\ Commit(IF id \notin DOMAIN agents
              THEN [World EXCEPT !.pollQueue = @ \ {id}]
              ELSE ReadNewLines(World, id, Fs, io))
    /\ UnchangedEnv

\* The fs.watch listener of agent id.
WatchEvent(id, io) ==
    /\ id \in fileWatchers
    /\ Commit(ReadNewLines(World, id, Fs, io))
    /\ UnchangedEnv

\* The callback of a debounce timeout.  Timeouts run in the order in which
\* they expire: a 300ms timeout created before this 2000ms one has run.
WaitingTimeout(t) ==
    /\ t \in timerQueue
    /\ \A i \in 1..Len(doneTimers) : doneTimers[i].armed >= t.h
    /\ LET w1 == [World EXCEPT
                    !.timerQueue = @ \ {t},
                    !.waitingTimers[t.agentId] = 0,
                    !.trace = Append(@, TimeoutMark("waitingTimeout",
                                                    t.agentId, "", t.h))]
           w2 == IF t.agentId \in DOMAIN w1.agents
                 THEN [w1 EXCEPT !.agents[t.agentId].isWaiting = TRUE]
                 ELSE w1
       IN  Commit(PostMessage(w2, Msg("agentStatus", t.agentId, "", "waiting")))
    /\ UnchangedEnv

\* The callback of the oldest tool-done timeout.
DoneTimeout ==
    /\ doneTimers # <<>>
    /\ LET t == Head(doneTimers)
           w1 == [World EXCEPT
                    !.doneTimers = Tail(@),
                    !.trace = Append(@, TimeoutMark("doneTimeout",
                                                    t.agentId, t.toolId, 0))]
       IN  Commit(PostMessage(w1, Msg("agentToolDone", t.agentId, t.toolId, "")))
    /\ UnchangedEnv

\* dispose()
Dispose ==
    /\ DOMAIN agents # {} \/ terminalScanTimers # {}
    /\ Commit(CleanupAll(RemoveAll(World, SortedIds(DOMAIN agents)),
                         SortedIds(terminalScanTimers)))
    /\ UnchangedEnv

\* The webviewReady message: the view asks for the agents and their states.
\* The number of these messages is bounded.
WebviewReady ==
    /\ Cardinality({j \in 1..Len(trace) : trace[j].type = "existingAgents"})
           < MaxResyncs
    /\ Commit(SendExistingAgents(World))
    /\ UnchangedEnv

----------------------------------------------------------------------------
\* Actions of the environment.

\* The agent process of a launched terminal creates the file named after its
\* session id; any other file can appear at any time.
CreateFile(f) ==
    /\ f \notin existing
    /\ f \in SessionNames =>
         \E t \in Terminals : sessionIds[t] = f /\ terminals[t] = "open"
    /\ existing' = existing \cup {f}
    /\ files' = [files EXCEPT ![f] = <<>>]
    /\ mtimes' = [mtimes EXCEPT ![f] = now]
    /\ UNCHANGED <<progVars, terminals, sessionIds, now, maxAge>>

\* The writer appends a chunk of bytes.
AppendChunk(f, chunk, maxLen) ==
    /\ f \in existing
    /\ Len(files[f]) + Len(chunk) <= maxLen
    /\ files' = [files EXCEPT ![f] = @ \o chunk]
    /\ mtimes' = [mtimes EXCEPT ![f] = now]
    /\ UNCHANGED <<progVars, terminals, sessionIds, existing, now, maxAge>>

\* The file is cut back to its first n bytes.
Truncate(f, n) ==
    /\ f \in existing
    /\ n < Len(files[f])
    /\ files' = [files EXCEPT ![f] = SubSeq(@, 1, n)]
    /\ mtimes' = [mtimes EXCEPT ![f] = now]
    /\ UNCHANGED <<progVars, terminals, sessionIds, existing, now, maxAge>>

\* One second passes.
Tick ==
    /\ now < MaxNow
    /\ now' = now + 1000
    /\ UNCHANGED <<progVars, terminals, sessionIds, files, existing, mtimes, maxAge>>

NoFail == [dirFail |-> FALSE, watchFail |-> {}, ioFail |-> {}]

Init ==
    /\ nextAgentId = 1
    /\ agents = <<>>
    /\ claimedFiles = {}
    /\ fileWatchers = {}
    /\ pollingTimers = {}
    /\ waitingTimers = [i \in AgentIds |-> 0]
    /\ terminalProjectDirs = {}
    /\ terminalScanTimers = {}
    /\ timerQueue = {}
    /\ doneTimers = <<>>
    /\ pollQueue = {}
    /\ nextTimer = 0
    /\ trace = <<>>
    /\ terminals = [t \in Terminals |-> "unborn"]
    /\ sessionIds = [t \in Terminals |-> NoSession]
    /\ files = [f \in FileNames |-> <<>>]
    /\ existing = {"notes"}
    /\ mtimes = [f \in FileNames |-> 0]
    /\ now = 0
    /\ maxAge \in {0, 1}

----------------------------------------------------------------------------
\* Specification of discovery and claiming: terminals come and go, files
\* appear and age, scans claim them.

ScanEnvs ==
    {NoFail,
     [NoFail EXCEPT !.dirFail = TRUE],
     [NoFail EXCEPT !.watchFail = {"c1"}],
     [NoFail EXCEPT !.ioFail = {"c1"}]}

\* Terminals and session ids are interchangeable: the next one created is the
\* first one not yet used.
FreshTerminal == {t \in Terminals : terminals[t] = "unborn"
                                    /\ \A u \in 1..(t - 1) : terminals[u] # "unborn"}
FreshSession ==
    LET used == {sessionIds[t] : t \in Terminals} IN
    IF "u1" \notin used THEN {"u1"} ELSE SessionNames \ used

Next ==
    \/ \E t \in FreshTerminal, sid \in FreshSession : LaunchNewTerminal(t, sid)
    \/ \E t \in FreshTerminal, matches \in BOOLEAN : OpenTerminal(t, matches)
    \/ \E t \in Terminals : CloseTerminal(t)
    \/ \E t \in Terminals, env \in ScanEnvs : ScanTick(t, env)
    \/ \E f \in FileNames : CreateFile(f)
    \/ Tick
    \/ Dispose

Spec == Init /\ [][Next]_vars

----------------------------------------------------------------------------
\* Specification of the interpreter: one launched terminal whose agent
\* process writes whole transcript lines, the reader, the timers.

InterpTokens ==
    {"A_tool_t1", "A_text", "U_result_t1", "U_result_t2", "U_str", "S_turn"}

InitInterp == Init /\ maxAge = 0

NextInterp ==
    \/ \E t \in FreshTerminal \cap {1}, sid \in FreshSession : LaunchNewTerminal(t, sid)
    \/ CreateFile("u1")
    \/ ScanTick(1, NoFail)
    \/ \E tok \in InterpTokens : AppendChunk("u1", <<tok, NL>>, 2 * MaxInterpLines)
    \/ \E id \in AgentIds : PollTick(id, "ok")
    \/ \E id \in AgentIds : WatchEvent(id, "ok")
    \/ \E t \in timerQueue : WaitingTimeout(t)
    \/ DoneTimeout
    \/ CloseTerminal(1)

SpecInterp == InitInterp /\ [][NextInterp]_vars

----------------------------------------------------------------------------
\* Specifications of the tailing reader: one launched terminal whose
\* transcript grows byte by byte, with failing reads; SpecTail also cuts the
\* file back, SpecAppend keeps it append-only.

AppendBytes == {"a", NL, SP, LEAD, CONT}
TailBytes == {"a", NL}
IoOutcomes == {"ok", "stat", "read"}
TailEnvs == {NoFail, [NoFail EXCEPT !.ioFail = {"u1"}]}

\* The handlers of the reader, and the environment for one terminal.
ReaderSteps ==
    \/ \E t \in FreshTerminal \cap {1}, sid \in FreshSession : LaunchNewTerminal(t, sid)
    \/ CreateFile("u1")
    \/ \E env \in TailEnvs : ScanTick(1, env)
    \/ \E id \in AgentIds, io \in IoOutcomes : PollTick(id, io)
    \/ \E id \in AgentIds, io \in IoOutcomes : WatchEvent(id, io)

NextAppend ==
    \/ ReaderSteps
    \/ \E b \in AppendBytes : AppendChunk("u1", <<b>>, MaxAppendLen)

NextTail ==
    \/ ReaderSteps
    \/ \E b \in TailBytes : AppendChunk("u1", <<b>>, MaxTailLen)
    \/ \E n \in 0..MaxTailLen : Truncate("u1", n)

SpecAppend == InitInterp /\ [][NextAppend]_vars
SpecTail == InitInterp /\ [][NextTail]_vars

\* Specification of the wake sources: as SpecAppend with plain bytes, the
\* watcher may fail to be set up and its notifications come or not; the poll
\* interval keeps firing and its reads succeed again and again.
PollEnvs == TailEnvs \cup {[NoFail EXCEPT !.watchFail = {"u1"}]}

NextPoll ==
    \/ \E t \in FreshTerminal \cap {1}, sid \in FreshSession : LaunchNewTerminal(t, sid)
    \/ CreateFile("u1")
    \/ \E env \in PollEnvs : ScanTick(1, env)
    \/ \E b \in TailBytes : AppendChunk("u1", <<b>>, MaxPollLen)
    \/ \E id \in AgentIds, io \in IoOutcomes : PollTick(id, io)
    \/ \E id \in AgentIds, io \in IoOutcomes : WatchEvent(id, io)

\* The poll of a live agent has bytes to read: the state predicate that
\* ENABLED <<\E id \in AgentIds : PollTick(id, "ok")>>_vars amounts to.
PollPending ==
    \E id \in DOMAIN agents \cap pollQueue :
        Len(files[agents[id].jsonlFile]) > agents[id].fileOffset

\* WF_vars(\E id \in AgentIds : PollTick(id, "ok")), written out.
PollFairness ==
    \/ []<>(~PollPending)
    \/ []<><<\E id \in AgentIds : PollTick(id, "ok")>>_vars

SpecPoll == InitInterp /\ [][NextPoll]_vars /\ PollFairness

\* PollPending is that enabling condition (an invariant of SpecAppend).
PollPendingIsEnabled ==
    PollPending <=> ENABLED <<\E id \in AgentIds : PollTick(id, "ok")>>_vars

\* Specification of the agents' lifetime: terminals open and close, their
\* transcripts hold text-only records, so that agents carry watchers, polls
\* and debounce timeouts when their terminal closes.
LifeFiles == {"u1", "c1"}

\* The ids of the agents a scan can create are within AgentIds.
ScanRoom ==
    nextAgentId + Cardinality((existing \cap JsonlNames) \ claimedFiles)
        <= MaxAgents + 1

NextLife ==
    \/ \E t \in FreshTerminal, sid \in FreshSession : LaunchNewTerminal(t, sid)
    \/ \E t \in FreshTerminal : OpenTerminal(t, TRUE)
    \/ \E t \in Terminals : CloseTerminal(t)
    \/ \E t \in Terminals : ScanRoom /\ ScanTick(t, NoFail)
    \/ \E f \in LifeFiles : CreateFile(f)
    \/ \E f \in LifeFiles : AppendChunk(f, <<"A_text", NL>>, MaxLifeLen)
    \/ \E id \in AgentIds : PollTick(id, "ok")
    \/ \E t \in timerQueue : WaitingTimeout(t)

SpecLife == InitInterp /\ [][NextLife]_vars

\* Specification of the interpreter on damaged transcripts: one terminal
\* whose transcript holds tool invocations and text together with lines that
\* are not JSON ("a"), the JSON value null, and records whose content has a
\* null entry.
MalformedTokens == {"a", "J_null", "A_null", "U_null", "A_tool_t1_null"}

NextMalformed ==
    \/ \E t \in FreshTerminal \cap {1}, sid \in FreshSession : LaunchNewTerminal(t, sid)
    \/ CreateFile("u1")
    \/ ScanTick(1, NoFail)
    \/ \E tok \in MalformedTokens \cup {"A_tool_t1", "A_text"} :
         AppendChunk("u1", <<tok, NL>>, 2 * MaxMalformedLines)
    \/ \E id \in AgentIds : PollTick(id, "ok")
    \/ \E id \in AgentIds : WatchEvent(id, "ok")
    \/ \E t \in timerQueue : WaitingTimeout(t)

SpecMalformed == InitInterp /\ [][NextMalformed]_vars

\* Specification of the interpreter on records it does not know: one
\* terminal whose transcript holds tool invocations and text together with
\* records of other shapes.
InertTokens ==
    {"A_thinking", "A_nocontent", "S_other", "P_progress", "U_blank", "U_empty",
     "J_number"}

NextInert ==
    \/ \E t \in FreshTerminal \cap {1}, sid \in FreshSession : LaunchNewTerminal(t, sid)
    \/ CreateFile("u1")
    \/ ScanTick(1, NoFail)
    \/ \E tok \in InertTokens \cup {"A_tool_t1", "A_text"} :
         AppendChunk("u1", <<tok, NL>>, 2 * MaxInertLines)
    \/ \E id \in AgentIds : PollTick(id, "ok")
    \/ \E id \in AgentIds : WatchEvent(id, "ok")
    \/ \E t \in timerQueue : WaitingTimeout(t)

SpecInert == InitInterp /\ [][NextInert]_vars

\* Specification of the reported status: the interpreter of one agent with
\* its timeouts, the close of its terminal, and the view asking for a
\* snapshot.
ResyncTokens == {"A_tool_t1", "A_text", "U_result_t1", "U_str", "S_turn"}

NextResync ==
    \/ \E t \in FreshTerminal \cap {1}, sid \in FreshSession : LaunchNewTerminal(t, sid)
    \/ CreateFile("u1")
    \/ ScanTick(1, NoFail)
    \/ \E tok \in ResyncTokens : AppendChunk("u1", <<tok, NL>>, 2 * MaxResyncLines)
    \/ \E id \in AgentIds : PollTick(id, "ok")
    \/ \E id \in AgentIds : WatchEvent(id, "ok")
    \/ \E t \in timerQueue : WaitingTimeout(t)
    \/ DoneTimeout
    \/ CloseTerminal(1)
    \/ WebviewReady

SpecResync == InitInterp /\ [][NextResync]_vars

\* What a line is to the interpreter.
IsToolInvocation(line) ==
    /\ JsonParses(line)
    /\ LET record == JsonParse(line) IN
       /\ ~record.isNull /\ record.type = "assistant" /\ record.kind = "array"
       /\ SomeType(record.blocks, "tool_use") = "true"
IsTextOnly(line) ==
    /\ JsonParses(line)
    /\ LET record == JsonParse(line) IN
       /\ ~record.isNull /\ record.type = "assistant" /\ record.kind = "array"
       /\ SomeType(record.blocks, "tool_use") = "false"
       /\ SomeType(record.blocks, "text") = "true"
IsToolResult(line) ==
    /\ JsonParses(line)
    /\ LET record == JsonParse(line) IN
       /\ ~record.isNull /\ record.type = "user" /\ record.kind = "array"
       /\ SomeType(record.blocks, "tool_result") = "true"
IsNewUserTurn(line) ==
    /\ JsonParses(line)
    /\ LET record == JsonParse(line) IN
       /\ ~record.isNull /\ record.type = "user"
       /\ \/ record.kind = "array" /\ SomeType(record.blocks, "tool_result") = "false"
          \/ record.kind = "string" /\ ~IsBlank(record.str)
IsTurnCompletion(line) ==
    /\ JsonParses(line)
    /\ LET record == JsonParse(line) IN
       ~record.isNull /\ record.type = "system" /\ record.subtype = "turn_duration"

----------------------------------------------------------------------------
\* C1: no transcript path is the jsonlFile of more than one live agent, for
\* every interleaving of scan ticks of the terminals and of terminal closes.
AtMostOneClaim ==
    \A a, b \in DOMAIN agents :
        a # b => agents[a].jsonlFile # agents[b].jsonlFile

\* Two scanning terminals each own an agent, and every jsonl file is claimed.
AtMostOneClaim_Witness ==
    /\ Cardinality(terminalScanTimers) >= 2
    /\ JsonlNames \subseteq claimedFiles
    /\ \E a, b \in DOMAIN agents : agents[a].terminalRef # agents[b].terminalRef

\* C9: every agent that owns the file named after a session id belongs to the
\* terminal that was launched with that session id.
HostOwnsItsFile ==
    \A id \in DOMAIN agents :
        agents[id].jsonlFile \in SessionNames =>
            sessionIds[agents[id].terminalRef] = agents[id].jsonlFile

\* C10: when the scan tick of a terminal launched with session id X runs while
\* X.jsonl exists and is unclaimed, the tick creates an agent of that terminal
\* on that file, whatever the file's age and the configured maximum age.
DeterministicClaiming ==
    [][\A t \in Terminals, env \in ScanEnvs :
          (/\ ScanTick(t, env)
           /\ sessionIds[t] # NoSession
           /\ sessionIds[t] \in existing
           /\ sessionIds[t] \notin claimedFiles)
          => (/\ sessionIds[t] \in claimedFiles'
              /\ \E id \in DOMAIN agents' \ DOMAIN agents :
                   /\ agents'[id].jsonlFile = sessionIds[t]
                   /\ agents'[id].terminalRef = t)]_vars

\* An agent of the launched terminal owns the session file although an agent
\* created before it owns a file that was written when the session file was
\* already older than the maximum age.
DeterministicClaiming_Witness ==
    /\ maxAge # 0
    /\ \E a, b \in DOMAIN agents :
         /\ a < b
         /\ agents[b].jsonlFile \in SessionNames
         /\ sessionIds[agents[b].terminalRef] = agents[b].jsonlFile
         /\ mtimes[agents[a].jsonlFile] - mtimes[agents[b].jsonlFile] >= maxAge * 1000

----------------------------------------------------------------------------
\* Claims about the interpreter, checked under SpecInterp.

IsStatus(e, id, status) ==
    e.type = "agentStatus" /\ e.id = id /\ e.status = status

\* The number of entries of the trace at the positions in S that satisfy P.
Count(S, P(_)) == Cardinality({i \in S : P(trace[i])})

\* C2: every agentToolDone(id, toolId) is preceded, since the last
\* agentToolsClear(id), by an agentToolStart(id, toolId) that no earlier
\* agentToolDone(id, toolId) has matched.
ToolLifecycleMatching ==
    \A j \in 1..Len(trace) :
        trace[j].type = "agentToolDone" =>
            LET id == trace[j].id
                toolId == trace[j].toolId
                clears == {i \in 1..(j - 1) :
                             trace[i].type = "agentToolsClear" /\ trace[i].id = id}
                from == IF clears = {} THEN 1
                        ELSE 1 + CHOOSE i \in clears : \A c \in clears : c <= i
                IsStart(e) == e.type = "agentToolStart" /\ e.id = id /\ e.toolId = toolId
                IsDone(e) == e.type = "agentToolDone" /\ e.id = id /\ e.toolId = toolId
            IN  Count(from..(j - 1), IsStart) > Count(from..(j - 1), IsDone)

\* C3: no agent is flagged (and reported) waiting while it has an open tool.
ActiveToolsImplyActive ==
    \A id \in DOMAIN agents :
        agents[id].isWaiting => agents[id].activeToolIds = {}

\* C4: a debounce timeout that was pending when a tool-invocation, tool-result,
\* new-user-turn or turn-completion record was handled never runs afterwards.
TieBreakRule ==
    \A j, k \in 1..Len(trace) :
        (/\ j < k
         /\ trace[j].type = "line" /\ trace[j].h # 0
         /\ \/ IsToolInvocation(trace[j].line)
            \/ IsToolResult(trace[j].line)
            \/ IsNewUserTurn(trace[j].line)
            \/ IsTurnCompletion(trace[j].line))
        => ~(trace[k].type = "waitingTimeout" /\ trace[k].h = trace[j].h)

\* C5: when a turn-completion record is handled while a debounce timeout is
\* pending, that timeout never runs, the record emits "waiting" at once, and
\* it is the only "waiting" of the agent until a later text-only or
\* turn-completion record is handled.
DebouncePrecedence ==
    \A j \in 1..Len(trace) :
        (trace[j].type = "line" /\ trace[j].h # 0 /\ IsTurnCompletion(trace[j].line))
        => LET id == trace[j].id
               later == {k \in (j + 1)..Len(trace) :
                           /\ trace[k].type = "line" /\ trace[k].id = id
                           /\ IsTextOnly(trace[k].line) \/ IsTurnCompletion(trace[k].line)}
               until == IF later = {} THEN Len(trace)
                        ELSE (CHOOSE k \in later : \A l \in later : k <= l) - 1
               IsWaiting(e) == IsStatus(e, id, "waiting")
           IN  /\ \A k \in (j + 1)..Len(trace) :
                    ~(trace[k].type = "waitingTimeout" /\ trace[k].h = trace[j].h)
               /\ j < Len(trace) /\ IsStatus(trace[j + 1], id, "waiting")
               /\ Count((j + 1)..until, IsWaiting) = 1

\* A turn-completion record was handled while a timeout was pending, other
\* events followed, and no timeout is pending any more.
DebouncePrecedence_Witness ==
    /\ timerQueue = {}
    /\ \E j \in 1..Len(trace) :
         /\ trace[j].type = "line" /\ trace[j].h # 0
         /\ IsTurnCompletion(trace[j].line)
         /\ j + 2 < Len(trace)

\* C6: after agentClosed(id) no event keyed by that id is emitted.
NoActionOnFreedState ==
    \A j, k \in 1..Len(trace) :
        (j < k /\ trace[j].type = "agentClosed")
        => ~(trace[k].id = trace[j].id
             /\ trace[k].type \in {"agentStatus", "agentToolStart", "agentToolDone",
                                   "agentToolsClear", "agentCreated"})

----------------------------------------------------------------------------
\* Claims about the tailing reader.

\* C7 (SpecTail): fileOffset never decreases, and a step that advances it
\* leaves it at the size the file has in that step.
OffsetMonotonicity ==
    [][\A id \in DOMAIN agents' :
          LET size == Len(files[agents'[id].jsonlFile]) IN
          IF id \in DOMAIN agents
          THEN /\ agents'[id].fileOffset >= agents[id].fileOffset
               /\ agents'[id].fileOffset > agents[id].fileOffset
                    => agents'[id].fileOffset = size
          ELSE agents'[id].fileOffset \in {0, size}]_vars

\* The reader has delivered a line and the file has since been cut back
\* below the offset.
OffsetMonotonicity_Witness ==
    \E id \in DOMAIN agents :
        /\ agents[id].fileOffset > Len(files[agents[id].jsonlFile])
        /\ \E i \in 1..Len(trace) : trace[i].type = "line" /\ trace[i].id = id

\* The lines handed to processTranscriptLine for agent id, in order.
RECURSIVE LinesOf(_, _)
LinesOf(tr, id) ==
    IF tr = <<>> THEN <<>>
    ELSE IF tr[1].type = "line" /\ tr[1].id = id
    THEN <<tr[1].line>> \o LinesOf(Tail(tr), id)
    ELSE LinesOf(Tail(tr), id)

\* C8 (SpecAppend): the lines handed to the interpreter, followed by
\* lineBuffer, are the text of the first fileOffset bytes of the file split
\* at the newlines (blank lines are not handed over).
NoDataLoss ==
    \A id \in DOMAIN agents :
        LET agent == agents[id]
            text == Utf8Decode(SubSeq(files[agent.jsonlFile], 1, agent.fileOffset))
            pieces == SplitNL(text)
        IN  /\ LinesOf(trace, id) =
                 SelectSeq(SubSeq(pieces, 1, Len(pieces) - 1), LAMBDA l : ~IsBlank(l))
            /\ agent.lineBuffer = pieces[Len(pieces)]

----------------------------------------------------------------------------
\* More claims about the interpreter, checked under SpecInterp.

\* The positions of the lines handed over for agent id.
LineMarks(id) == {j \in 1..Len(trace) : trace[j].type = "line" /\ trace[j].id = id}

Max(S) == CHOOSE x \in S : \A y \in S : y <= x
Min(S) == CHOOSE x \in S : \A y \in S : x <= y

\* The handle of the timeout armed by the text-only line at position j: the
\* number of text-only lines handled up to there.
ArmedHandle(j) ==
    Cardinality({i \in 1..j : trace[i].type = "line" /\ IsTextOnly(trace[i].line)})

\* C11: while a text-only assistant record is the last record handled for a
\* live agent, either its timeout is the one pending timeout of the agent and
\* no "waiting" has been emitted since, or the timeout has run: then exactly
\* one "waiting" has been emitted since, isWaiting is true and no timeout of
\* the agent is left to run.
TextOnlyDebounceFiresOnce ==
    \A id \in DOMAIN agents :
        LineMarks(id) # {} =>
            LET j == Max(LineMarks(id))
                h == ArmedHandle(j)
                IsWaiting(e) == IsStatus(e, id, "waiting")
                n == Count((j + 1)..Len(trace), IsWaiting)
                mine == {t \in timerQueue : t.agentId = id}
            IN  IsTextOnly(trace[j].line) =>
                    \/ /\ n = 0
                       /\ mine = {[h |-> h, agentId |-> id]}
                       /\ waitingTimers[id] = h
                    \/ /\ n = 1
                       /\ mine = {}
                       /\ waitingTimers[id] = 0
                       /\ agents[id].isWaiting
                       /\ IsWaiting(trace[Len(trace)])

\* The timeout of a text-only record, handled after another text-only
\* record, has run.
TextOnlyDebounceFiresOnce_Witness ==
    \E id \in DOMAIN agents :
        /\ LineMarks(id) # {}
        /\ LET j == Max(LineMarks(id)) IN
           /\ IsTextOnly(trace[j].line)
           /\ ArmedHandle(j) >= 2
           /\ trace[Len(trace)].type = "agentStatus"
        /\ agents[id].isWaiting

\* The position after the events of the line at j: the next line of the same
\* agent, or the end of the trace.
NextLine(id, j) ==
    LET later == {k \in LineMarks(id) : k > j}
    IN  IF later = {} THEN Len(trace) + 1 ELSE Min(later)

\* C12: when an assistant record with one tool_use block with an id is
\* handled while the timeout of the text-only record before it is pending,
\* then until the next record of the agent no "waiting" is emitted, exactly
\* one "active" and one agentToolStart are emitted, the timeout never runs,
\* and isWaiting is false while that record is the agent's last.
TextThenToolNoFlicker ==
    \A id \in AgentIds : \A j \in LineMarks(id) :
        (/\ IsToolInvocation(trace[j].line)
         /\ Len(JsonParse(trace[j].line).blocks) = 1
         /\ trace[j].h # 0
         /\ \E i \in LineMarks(id) :
              /\ i < j /\ IsTextOnly(trace[i].line) /\ ArmedHandle(i) = trace[j].h
              /\ \A k \in LineMarks(id) : ~(i < k /\ k < j))
        => LET seg == (j + 1)..(NextLine(id, j) - 1)
               IsWaiting(e) == IsStatus(e, id, "waiting")
               IsActive(e) == IsStatus(e, id, "active")
               IsStart(e) == e.type = "agentToolStart" /\ e.id = id
           IN  /\ Count(seg, IsWaiting) = 0
               /\ Count(seg, IsActive) = 1
               /\ Count(seg, IsStart) = 1
               /\ \A k \in (j + 1)..Len(trace) :
                    ~(trace[k].type = "waitingTimeout" /\ trace[k].h = trace[j].h)
               /\ (id \in DOMAIN agents /\ NextLine(id, j) > Len(trace))
                    => ~agents[id].isWaiting

\* A tool_use record directly followed a text-only record whose timeout was
\* still pending, and nothing is left to run.
TextThenToolNoFlicker_Witness ==
    /\ timerQueue = {} /\ doneTimers = <<>>
    /\ \E id \in DOMAIN agents : \E j \in LineMarks(id) :
         /\ IsToolInvocation(trace[j].line)
         /\ trace[j].h # 0
         /\ j = Max(LineMarks(id))
         /\ \E i \in LineMarks(id) : i < j /\ IsTextOnly(trace[i].line)
                                     /\ ArmedHandle(i) = trace[j].h

\* The tool_use_ids of the tool_result blocks of a line.
ResultIds(line) ==
    IF IsToolResult(line)
    THEN LET blocks == JsonParse(line).blocks IN
         {blocks[i].tool_use_id : i \in {k \in 1..Len(blocks) :
              ~blocks[k].isNull /\ blocks[k].type = "tool_result"
              /\ blocks[k].tool_use_id # ""}}
    ELSE {}

\* Tool toolId of agent id is open when the line at position j is handled:
\* it was started, and neither cleared nor closed by a tool result since.
OpenAt(id, toolId, j) ==
    \E i \in 1..(j - 1) :
        /\ trace[i].type = "agentToolStart" /\ trace[i].id = id
        /\ trace[i].toolId = toolId
        /\ \A k \in (i + 1)..(j - 1) :
             /\ ~(trace[k].type = "agentToolsClear" /\ trace[k].id = id)
             /\ ~(trace[k].type = "line" /\ trace[k].id = id
                  /\ toolId \in ResultIds(trace[k].line))

\* C13: a tool_result whose id is not open causes no event, at once or after
\* the delay: the agentToolDone events emitted and the tool-done timeouts
\* pending for a tool are as many as the tool results handled while it was
\* open.
UnmatchedResultsAreNoOps ==
    \A id \in AgentIds : \A toolId \in {"t1", "t2"} :
        LET IsDone(e) == e.type = "agentToolDone" /\ e.id = id /\ e.toolId = toolId
            pending == {i \in 1..Len(doneTimers) :
                          doneTimers[i].agentId = id /\ doneTimers[i].toolId = toolId}
            matched == {j \in LineMarks(id) :
                          toolId \in ResultIds(trace[j].line) /\ OpenAt(id, toolId, j)}
        IN  Count(1..Len(trace), IsDone) + Cardinality(pending) = Cardinality(matched)

----------------------------------------------------------------------------
\* More claims about the tailing reader.

\* The number of complete (newline-terminated), non-blank lines in bytes.
CompleteLines(bytes) ==
    LET pieces == SplitNL(Utf8Decode(bytes))
    IN  Len(SelectSeq(SubSeq(pieces, 1, Len(pieces) - 1), LAMBDA l : ~IsBlank(l)))

\* Agent id has been handed every complete line its transcript holds.
CaughtUp(id) ==
    Len(LinesOf(trace, id)) >= CompleteLines(files[agents[id].jsonlFile])

\* C14 (SpecPoll): whenever the transcript of a live agent holds a complete
\* line that has not been handed to the interpreter, a state follows in which
\* every complete line has been handed over, with or without notifications.
MissedNotificationsCannotStall ==
    (\E id \in DOMAIN agents : ~CaughtUp(id))
        ~> (\A id \in DOMAIN agents : CaughtUp(id))

\* An agent without a watcher has been handed two lines and has read the
\* whole file.
MissedNotificationsCannotStall_Witness ==
    \E id \in DOMAIN agents :
        /\ id \notin fileWatchers
        /\ Len(LinesOf(trace, id)) >= 2
        /\ agents[id].fileOffset = Len(files[agents[id].jsonlFile])

----------------------------------------------------------------------------
\* Claims about the agents' lifetime.

\* The agentClosed messages for the ids in ids, in order.
ClosedMsgs(ids) == [i \in 1..Len(ids) |-> Msg("agentClosed", ids[i], "", "")]

\* C15 (SpecLife): closing terminal t removes exactly the agents of t, with
\* their claims, watchers, polls and debounce timeouts, emits one
\* agentClosed per removed agent, stops the scan of t and leaves every other
\* agent, claim and timer as it was; no agent of a closed terminal exists.
HostCloseRemovesItsAgents ==
    /\ [](\A id \in DOMAIN agents : terminals[agents[id].terminalRef] = "open")
    /\ [][\A t \in Terminals :
            CloseTerminal(t) =>
                LET gone == {id \in DOMAIN agents : agents[id].terminalRef = t}
                    kept == DOMAIN agents \ gone
                IN  /\ DOMAIN agents' = kept
                    /\ \A id \in kept : agents'[id] = agents[id]
                    /\ claimedFiles' =
                         claimedFiles \ {agents[id].jsonlFile : id \in gone}
                    /\ fileWatchers' = fileWatchers \ gone
                    /\ pollingTimers' = pollingTimers \ gone
                    /\ pollQueue' = pollQueue \ gone
                    /\ waitingTimers' = [id \in AgentIds |->
                         IF id \in gone THEN 0 ELSE waitingTimers[id]]
                    /\ timerQueue' = {x \in timerQueue : x.agentId \notin gone}
                    /\ trace' = trace \o ClosedMsgs(SortedIds(gone))
                    /\ terminalScanTimers' = terminalScanTimers \ {t}
                    /\ terminalProjectDirs' = terminalProjectDirs \ {t}
                    /\ UNCHANGED <<nextAgentId, doneTimers, nextTimer>>]_vars

\* An agent was closed while the timeout of its text-only record was
\* pending, and an agent of the other terminal still has its own timeout.
HostCloseRemovesItsAgents_Witness ==
    /\ \E id \in DOMAIN agents : waitingTimers[id] # 0 /\ id \in pollQueue
    /\ \E j \in 1..Len(trace) :
         /\ trace[j].type = "agentClosed"
         /\ \E i \in 1..(j - 1) :
              /\ trace[i].type = "line" /\ trace[i].id = trace[j].id
              /\ IsTextOnly(trace[i].line)
         /\ \A i \in 1..Len(trace) :
              ~(trace[i].type = "waitingTimeout" /\ trace[i].id = trace[j].id)

\* The positions of the agentCreated messages.
Created == {j \in 1..Len(trace) : trace[j].type = "agentCreated"}

\* C16 (SpecLife): every created agent has an id greater than the id of
\* every agent created before it, whatever was removed in between, and the
\* id of an agent is the key it is registered under.
AgentIdsNeverReused ==
    /\ \A i, j \in Created : i < j => trace[i].id < trace[j].id
    /\ \A j \in Created : trace[j].id < nextAgentId
    /\ \A id \in DOMAIN agents : agents[id].id = id /\ id < nextAgentId

\* An agent was closed, and later three agents were created on two
\* transcript paths: one path was claimed again, and two agents of one
\* terminal are alive.
AgentIdsNeverReused_Witness ==
    /\ \E c \in 1..Len(trace) :
         /\ trace[c].type = "agentClosed"
         /\ \E j \in Created : j > c
    /\ Cardinality(Created) >= 3
    /\ \E a, b \in DOMAIN agents :
         a < b /\ agents[a].terminalRef = agents[b].terminalRef

\* A line without its multi-byte characters, which the reader may garble.
StripWide(line) == SelectSeq(line, LAMBDA c : c \notin {CH, REPL})

StripAll(lines) == [i \in 1..Len(lines) |-> StripWide(lines[i])]

\* The complete, non-blank lines of bytes.
LinesIn(bytes) ==
    LET pieces == SplitNL(Utf8Decode(bytes))
    IN  SelectSeq(SubSeq(pieces, 1, Len(pieces) - 1), LAMBDA l : ~IsBlank(l))

\* C17 (SpecAppend): whichever of the watcher and the poll runs, and in
\* whatever order, each complete line below fileOffset has been handed to
\* the interpreter exactly once and in file order, and readNewLines of a file
\* no longer than fileOffset changes nothing and emits nothing.
RedundantPumpsAreSafe ==
    \A id \in DOMAIN agents :
        LET agent == agents[id]
            bytes == files[agent.jsonlFile]
        IN  /\ StripAll(LinesOf(trace, id)) =
                 StripAll(LinesIn(SubSeq(bytes, 1, agent.fileOffset)))
            /\ Len(bytes) <= agent.fileOffset
                 => ReadNewLines(World, id, Fs, "ok") = World

\* An agent with a watcher and a poll has been handed two lines and has read
\* the whole file: the next pump of either source is redundant.
RedundantPumpsAreSafe_Witness ==
    \E id \in DOMAIN agents \cap fileWatchers \cap pollQueue :
        /\ Len(LinesOf(trace, id)) >= 2
        /\ agents[id].fileOffset = Len(files[agents[id].jsonlFile])
        /\ ReadNewLines(World, id, Fs, "ok") = World

\* The program after a pump of agent id whose stat or read fails as io says,
\* followed by a pump that succeeds.
RetryAfter(id, io) == ReadNewLines(ReadNewLines(World, id, Fs, io), id, Fs, "ok")

\* C18 (SpecAppend): a pump whose stat or read fails changes nothing and
\* emits nothing, the agent stays registered, and a successful pump after it
\* reads up to the end of the file and has handed over every complete line
\* of the file, once and in order.
FailedPumpLeavesReaderUnchanged ==
    \A id \in DOMAIN agents : \A io \in IoOutcomes \ {"ok"} :
        LET bytes == files[agents[id].jsonlFile]
            after == RetryAfter(id, io)
        IN  /\ ReadNewLines(World, id, Fs, io) = World
            /\ after = ReadNewLines(World, id, Fs, "ok")
            /\ id \in DOMAIN after.agents
            /\ after.agents[id].fileOffset = Len(bytes)
            /\ StripAll(LinesOf(after.trace, id)) = StripAll(LinesIn(bytes))

\* The first read of an agent failed or came too early: the agent has read
\* nothing of a transcript with a complete line, and the retry hands it over.
FailedPumpLeavesReaderUnchanged_Witness ==
    \E id \in DOMAIN agents :
        /\ agents[id].fileOffset = 0
        /\ LinesIn(files[agents[id].jsonlFile]) # <<>>
        /\ LinesOf(trace, id) = <<>>
        /\ LinesOf(RetryAfter(id, "read").trace, id) # <<>>

----------------------------------------------------------------------------
\* Claims about lines the interpreter does not understand.

\* The line is not JSON, or is null, or is a record with a null entry among
\* its content blocks.
IsMalformed(line) ==
    \/ ~JsonParses(line)
    \/ LET record == JsonParse(line) IN
       \/ record.isNull
       \/ \E i \in 1..Len(record.blocks) : record.blocks[i].isNull

\* What a step appends to trace.
NewTrace == SubSeq(trace', Len(trace) + 1, Len(trace'))

\* The step hands lines to the interpreter, all of them satisfying Is.
HandsOnly(Is(_)) ==
    /\ \E i \in 1..Len(NewTrace) : NewTrace[i].type = "line"
    /\ \A i \in 1..Len(NewTrace) : NewTrace[i].type = "line" => Is(NewTrace[i].line)

\* The step emits no event of the interpreter and leaves the tools, the
\* waiting flag and the timeouts of every agent as they were (for a new
\* agent: as createAgentFromFile sets them).
InterpreterIdle ==
    /\ \A i \in 1..Len(NewTrace) : NewTrace[i].type \in {"line", "agentCreated"}
    /\ \A id \in DOMAIN agents' :
         LET old == IF id \in DOMAIN agents THEN agents[id]
                    ELSE NewAgent(id, agents'[id].terminalRef, agents'[id].jsonlFile)
         IN  /\ agents'[id].activeToolIds = old.activeToolIds
             /\ agents'[id].activeToolStatuses = old.activeToolStatuses
             /\ agents'[id].isWaiting = old.isWaiting
    /\ UNCHANGED <<waitingTimers, timerQueue, doneTimers>>

\* C19: a step that hands only malformed lines to the interpreter emits no
\* event and leaves activeToolIds, isWaiting and the debounce timeout
\* unchanged; and the lines after a malformed one are handed over all the
\* same.
MalformedLinesAreDiscardedWhole ==
    /\ [](\A id \in DOMAIN agents :
            LinesOf(trace, id) =
                LinesIn(SubSeq(files[agents[id].jsonlFile], 1, agents[id].fileOffset)))
    /\ [][HandsOnly(IsMalformed) => InterpreterIdle]_vars

\* The line is a JSON record of none of the shapes the interpreter knows.
IsInert(line) ==
    /\ ~IsMalformed(line)
    /\ ~IsToolInvocation(line) /\ ~IsTextOnly(line) /\ ~IsToolResult(line)
    /\ ~IsNewUserTurn(line) /\ ~IsTurnCompletion(line)

InertLines == {l \in {<<tok>> : tok \in JsonTokens} : IsInert(l)}

\* C20 (SpecInert): a record of no recognized shape changes nothing when it
\* is handed to the interpreter of a live agent (activeToolIds, isWaiting
\* and the debounce timeout included), and no message follows its line in
\* trace.
UnrecognizedRecordsAreInert ==
    /\ \A id \in DOMAIN agents : \A l \in InertLines :
         ProcessTranscriptLine(World, id, l) = World
    /\ \A j \in 1..(Len(trace) - 1) :
         trace[j].type = "line" /\ IsInert(trace[j].line)
            => trace[j + 1].type \in {"line", "waitingTimeout", "agentCreated"}

\* The last thing that happened is that an unrecognized record was handed to
\* an agent with an open tool and a pending debounce timeout, which are
\* still there.
UnrecognizedRecordsAreInert_Witness ==
    /\ trace # <<>>
    /\ LET last == trace[Len(trace)] IN
       /\ last.type = "line" /\ IsInert(last.line)
       /\ last.id \in DOMAIN agents
       /\ agents[last.id].activeToolIds # {}
       /\ waitingTimers[last.id] # 0
       /\ last.h = waitingTimers[last.id]

----------------------------------------------------------------------------
\* Claims about the user turn, the claim set and the reported status.

\* The lines that are a user record opening a new turn.
NewTurnLines == {l \in {<<tok>> : tok \in JsonTokens} : IsNewUserTurn(l)}

\* C21 (SpecInterp): in every state, a user record whose content is a list
\* without tool_result block or a non-blank string, handed to the interpreter
\* of a live agent, cancels the debounce timeout, empties activeToolIds and
\* activeToolStatuses, sets isWaiting to false and posts agentToolsClear and
\* then agentStatus active, and nothing else; so these two messages follow
\* every such line in trace.
NewUserTurnResetsActivity ==
    /\ \A id \in DOMAIN agents : \A l \in NewTurnLines :
         LET w == ProcessTranscriptLine(World, id, l) IN
         /\ w.waitingTimers[id] = 0
         /\ \A t \in w.timerQueue : t.agentId # id
         /\ w.agents[id].activeToolIds = {}
         /\ w.agents[id].activeToolStatuses = <<>>
         /\ w.agents[id].isWaiting = FALSE
         /\ w.trace = trace \o <<Msg("agentToolsClear", id, "", ""),
                                 Msg("agentStatus", id, "", "active")>>
    /\ \A j \in 1..Len(trace) :
         trace[j].type = "line" /\ IsNewUserTurn(trace[j].line)
            => /\ j + 2 <= Len(trace)
               /\ trace[j + 1] = Msg("agentToolsClear", trace[j].id, "", "")
               /\ trace[j + 2] = Msg("agentStatus", trace[j].id, "", "active")

\* A new user turn has just been handled for an agent that had an open tool,
\* a pending debounce timeout and had been reported waiting.
NewUserTurnResetsActivity_Witness ==
    \E id \in DOMAIN agents : \E j \in LineMarks(id) :
        /\ j + 2 = Len(trace)
        /\ IsNewUserTurn(trace[j].line)
        /\ trace[j].h # 0
        /\ OpenAt(id, "t1", j)
        /\ \E i \in 1..(j - 1) :
             trace[i].type = "agentStatus" /\ trace[i].id = id
             /\ trace[i].status = "waiting"
        /\ agents[id].activeToolIds = {} /\ ~agents[id].isWaiting
        /\ waitingTimers[id] = 0

\* C22 (Spec): the claimed paths are exactly the jsonlFile values of the
\* live agents, after any sequence of scan ticks, terminal closes and
\* dispose.
ClaimSetMirrorsRegistry ==
    claimedFiles = {agents[id].jsonlFile : id \in DOMAIN agents}

\* An agent created earlier has been removed (its terminal closed, or
\* dispose ran), an agent created later is alive, three agents were created
\* in all, and a transcript that exists is not claimed.
ClaimSetMirrorsRegistry_Witness ==
    /\ \E j \in Created : \E k \in Created : j < k /\ trace[k].id \in DOMAIN agents
                                             /\ trace[j].id \notin DOMAIN agents
    /\ Cardinality(Created) >= 3
    /\ \E f \in (existing \cap JsonlNames) : f \notin claimedFiles
    /\ claimedFiles # {}

\* The status last reported for agent id in tr: "waiting" or "active", or
\* "none" when no agentStatus message for it was posted.
LastStatus(tr, id) ==
    LET S == {j \in 1..Len(tr) : tr[j].type = "agentStatus" /\ tr[j].id = id}
    IN  IF S = {} THEN "none" ELSE tr[Max(S)].status

\* C23 (SpecResync): for every live agent, isWaiting is true exactly when
\* the last agentStatus message posted for it says "waiting", and this is
\* still so after the snapshot that sendExistingAgents would post now.
WaitingFlagTracksStatus ==
    \A id \in DOMAIN agents :
        /\ agents[id].isWaiting <=> LastStatus(trace, id) = "waiting"
        /\ agents[id].isWaiting
             <=> LastStatus(SendExistingAgents(World).trace, id) = "waiting"

\* A snapshot was sent for an agent that had been reported active and then
\* waiting; its "waiting" was sent again, and the agent has been reported
\* active since.
WaitingFlagTracksStatus_Witness ==
    \E id \in DOMAIN agents : \E r \in 1..Len(trace) :
        /\ trace[r].type = "existingAgents"
        /\ LastStatus(SubSeq(trace, 1, r - 1), id) = "waiting"
        /\ \E i \in 1..(r - 1) :
             trace[i].type = "agentStatus" /\ trace[i].id = id
             /\ trace[i].status = "active"
        /\ \E i \in (r + 1)..Len(trace) :
             trace[i].type = "agentStatus" /\ trace[i].id = id
             /\ trace[i].status = "waiting"
        /\ LastStatus(trace, id) = "active"
        /\ ~agents[id].isWaiting

====
